---- MODULE Spec2Model ----
(***************************************************************************)
(* Model of dualshock3-rs (src/src/lib.rs): the sampling thread started by *)
(* read_controller, the Controller it feeds, and the default               *)
(* ControllerHandler::controller_update that turns a Controller state into *)
(* an ordered sequence of on_event calls.                                  *)
(*                                                                         *)
(* Numbers.  Stick components, trigger magnitudes and the two thresholds   *)
(* are f64 in the source; here they are integers in one fixed-point unit.  *)
(* Coordinate::length() is a square root, so `length() > l` with l >= 0 is *)
(* modelled exactly as  x*x + y*y > l*l.                                   *)
(*                                                                         *)
(* The module `controller` (Controller, ControllerValues, Coordinate,      *)
(* Button) is declared at lib.rs:1-2 but its file is not part of the       *)
(* sources; its operations are modelled from the specification (sections   *)
(* 3 and 4.1).                                                             *)
(***************************************************************************)
EXTENDS Integers, Sequences, FiniteSets, TLC

(* ------------------------------ bounds --------------------------------- *)

\* Largest stick component (fixed-point units) a report carries.
MaxAxis == 1

\* Largest trigger magnitude a report carries.
MaxTrig == 2

\* Largest deadzone threshold passed to read_controller.
MaxThr == 1

\* Two representatives of the Button enumeration, with their bit in a report.
Buttons == {"A", "B"}

ButtonBit(b) == IF b = "A" THEN 0 ELSE 1

Sides == {"Left", "Right"}

(* ------------------------- raw reports, decoding ------------------------ *)

\* The buffer `[0u8; 20]` the Controller of a connection is built from.
ZeroBuf == [lx |-> 0, ly |-> 0, rx |-> 0, ry |-> 0, lt |-> 0, rt |-> 0, btn |-> 0]

RECURSIVE Pow2(_)
Pow2(n) == IF n = 0 THEN 1 ELSE 2 * Pow2(n - 1)

\* The button bits of a report, as a number.
AllMasks == 0 .. (Pow2(Cardinality(Buttons)) - 1)

\* A stick moves through its whole range along x, and is centred or fully
\* deflected along y.
AllReports ==
  [lx : 0 .. MaxAxis, ly : {0, MaxAxis}, rx : 0 .. MaxAxis, ry : {0, MaxAxis},
   lt : 0 .. MaxTrig, rt : 0 .. MaxTrig, btn : AllMasks]

SticksIdle(r) == r.lx = 0 /\ r.ly = 0 /\ r.rx = 0 /\ r.ry = 0

TriggersIdle(r) == r.lt = 0 /\ r.rt = 0

ButtonsIdle(r) == r.btn = 0

\* Both sticks together, and both triggers together, idle or fully deflected.
Extreme(r) ==
  /\ r.lx \in {0, MaxAxis} /\ r.rx = r.lx /\ r.ly = 0 /\ r.ry = 0
  /\ r.lt \in {0, MaxTrig} /\ r.rt = r.lt

\* The reports a device delivers in the single-connection specification:
\* every report that moves one group of controls (both sticks, both
\* triggers, or the buttons) through its whole range, and every report
\* that combines the groups at their extremes.
Reports ==
  {r \in AllReports :
     \/ TriggersIdle(r) /\ ButtonsIdle(r)
     \/ SticksIdle(r) /\ ButtonsIdle(r)
     \/ SticksIdle(r) /\ TriggersIdle(r)
     \/ Extreme(r)}

\* The reports a device delivers in the specification of the whole thread.
LoopReports ==
  {r \in AllReports :
     /\ r.ly = 0 /\ r.rx = 0 /\ r.ry = 0 /\ r.rt = 0
     /\ r.lx \in {0, MaxAxis} /\ r.lt \in {0, MaxTrig}}

\* The reports read in the runs that follow the thread to its end: sticks
\* and triggers idle, any buttons.
StopReports == {r \in LoopReports : r.lx = 0 /\ r.lt = 0}

\* ControllerValues::new(buf): the decoded snapshot of one raw report.
ControllerValuesNew(b) ==
  [left_pos      |-> <<b.lx, b.ly>>,
   right_pos     |-> <<b.rx, b.ry>>,
   left_trigger  |-> b.lt,
   right_trigger |-> b.rt,
   buttons       |-> {x \in Buttons : (b.btn \div Pow2(ButtonBit(x))) % 2 = 1}]

\* Coordinate::length(), squared.
LengthSq(c) == c[1] * c[1] + c[2] * c[2]

(* ------------------------------ Controller ------------------------------ *)

\* Controller::new(initial)
ControllerNew(initial) ==
  [curr |-> initial, prev |-> initial,
   left_pos_changed |-> FALSE, right_pos_changed |-> FALSE,
   left_trigger_changed |-> FALSE, right_trigger_changed |-> FALSE]

\* Controller::update(new_values)
Update(c, vals) ==
  [curr |-> vals, prev |-> c.curr,
   left_pos_changed      |-> vals.left_pos # c.curr.left_pos,
   right_pos_changed     |-> vals.right_pos # c.curr.right_pos,
   left_trigger_changed  |-> vals.left_trigger # c.curr.left_trigger,
   right_trigger_changed |-> vals.right_trigger # c.curr.right_trigger]

\* Variant: every button of the current snapshot counts as held.
ChangedButtons_HeldIsCurrent(c) ==
  <<c.curr.buttons \ c.prev.buttons, c.curr.buttons, c.prev.buttons \ c.curr.buttons>>

\* Controller::changed_buttons(): <<pressed, held, released>>
ChangedButtons(c) ==
  <<c.curr.buttons \ c.prev.buttons,
    c.curr.buttons \cap c.prev.buttons,
    c.prev.buttons \ c.curr.buttons>>

(* ------------------------- events, on_event calls ----------------------- *)

\* HidEvent::Stick(side, evt); Moved and Active carry the Coordinate.
StickEv(side, evt, pos) == [kind |-> "Stick", who |-> side, evt |-> evt, val |-> pos]

StickToOrigin(side) == [kind |-> "Stick", who |-> side, evt |-> "ToOrigin", val |-> <<>>]

\* HidEvent::Trigger(side, evt); Moved and Active carry the magnitude.
TriggerEv(side, evt, m) == [kind |-> "Trigger", who |-> side, evt |-> evt, val |-> <<m>>]

TriggerToOrigin(side) == [kind |-> "Trigger", who |-> side, evt |-> "ToOrigin", val |-> <<>>]

\* HidEvent::Button(button, evt)
ButtonEv(b, evt) == [kind |-> "Button", who |-> b, evt |-> evt, val |-> <<>>]

(* --------------- ControllerHandler::controller_update (default) --------- *)

\* Variant: ToOrigin is sent whenever the left stick is at or below the threshold.
LeftStickEvents_AlwaysToOrigin(c, stk) ==
  IF LengthSq(c.curr.left_pos) > stk * stk
  THEN IF c.left_pos_changed
       THEN <<StickEv("Left", "Moved", c.curr.left_pos)>>
       ELSE <<StickEv("Left", "Active", c.curr.left_pos)>>
  ELSE <<StickToOrigin("Left")>>

\* lib.rs:61-73
LeftStickEvents(c, stk) ==
  IF LengthSq(c.curr.left_pos) > stk * stk
  THEN IF c.left_pos_changed
       THEN <<StickEv("Left", "Moved", c.curr.left_pos)>>
       ELSE <<StickEv("Left", "Active", c.curr.left_pos)>>
  ELSE IF c.left_pos_changed THEN <<StickToOrigin("Left")>> ELSE <<>>

\* Variant: the right-stick block tests the left stick's change flag.
RightStickEvents_LeftFlag(c, stk) ==
  IF LengthSq(c.curr.right_pos) > stk * stk
  THEN IF c.left_pos_changed
       THEN <<StickEv("Right", "Moved", c.curr.right_pos)>>
       ELSE <<StickEv("Right", "Active", c.curr.right_pos)>>
  ELSE IF c.left_pos_changed THEN <<StickToOrigin("Right")>> ELSE <<>>

\* lib.rs:74-86
RightStickEvents(c, stk) ==
  IF LengthSq(c.curr.right_pos) > stk * stk
  THEN IF c.right_pos_changed
       THEN <<StickEv("Right", "Moved", c.curr.right_pos)>>
       ELSE <<StickEv("Right", "Active", c.curr.right_pos)>>
  ELSE IF c.right_pos_changed THEN <<StickToOrigin("Right")>> ELSE <<>>

\* The orders in which `for btn in set.iter()` may visit a set of buttons.
Orderings(S) ==
  {s \in [1 .. Cardinality(S) -> S] : \A i, j \in 1 .. Cardinality(S) : s[i] = s[j] => i = j}

Tag(s, evt) == [i \in 1 .. Len(s) |-> ButtonEv(s[i], evt)]

\* Variant: the held buttons are reported before the released ones.
ButtonRuns_HeldFirst(c) ==
  {Tag(d, "Down") \o Tag(p, "Pressed") \o Tag(u, "Up") :
     d \in Orderings(ChangedButtons(c)[1]), u \in Orderings(ChangedButtons(c)[3]),
     p \in Orderings(ChangedButtons(c)[2])}

\* Variant: pressed buttons are reported as Pressed and held ones as Down.
ButtonRuns_Naming(c) ==
  {Tag(d, "Pressed") \o Tag(u, "Up") \o Tag(p, "Down") :
     d \in Orderings(ChangedButtons(c)[1]), u \in Orderings(ChangedButtons(c)[3]),
     p \in Orderings(ChangedButtons(c)[2])}

\* Variant: one loop over all changed and held buttons, in any order.
ButtonRuns_AnyOrder(c) ==
  LET all == {ButtonEv(b, "Down") : b \in ChangedButtons(c)[1]}
               \cup {ButtonEv(b, "Up") : b \in ChangedButtons(c)[3]}
               \cup {ButtonEv(b, "Pressed") : b \in ChangedButtons(c)[2]}
  IN Orderings(all)

\* Variant: held buttons are not reported.
ButtonRuns_NoHeld(c) ==
  {Tag(d, "Down") \o Tag(u, "Up") :
     d \in Orderings(ChangedButtons(c)[1]), u \in Orderings(ChangedButtons(c)[3])}

\* lib.rs:89-104: Down for pressed, then Up for released, then Pressed for held.
ButtonRuns(c) ==
  LET pressed  == ChangedButtons(c)[1]
      active   == ChangedButtons(c)[2]
      released == ChangedButtons(c)[3]
  IN {Tag(d, "Down") \o Tag(u, "Up") \o Tag(p, "Pressed") :
        d \in Orderings(pressed), u \in Orderings(released), p \in Orderings(active)}

\* Variant: the left trigger is compared with >= instead of >.
LeftTriggerEvents_AtThreshold(c, tgr) ==
  IF c.curr.left_trigger >= tgr
  THEN IF c.left_trigger_changed
       THEN <<TriggerEv("Left", "Moved", c.curr.left_trigger)>>
       ELSE <<TriggerEv("Left", "Active", c.curr.left_trigger)>>
  ELSE IF c.left_trigger_changed THEN <<TriggerToOrigin("Left")>> ELSE <<>>

\* lib.rs:109-123
LeftTriggerEvents(c, tgr) ==
  IF c.curr.left_trigger > tgr
  THEN IF c.left_trigger_changed
       THEN <<TriggerEv("Left", "Moved", c.curr.left_trigger)>>
       ELSE <<TriggerEv("Left", "Active", c.curr.left_trigger)>>
  ELSE IF c.left_trigger_changed THEN <<TriggerToOrigin("Left")>> ELSE <<>>

\* lib.rs:124-138
RightTriggerEvents(c, tgr) ==
  IF c.curr.right_trigger > tgr
  THEN IF c.right_trigger_changed
       THEN <<TriggerEv("Right", "Moved", c.curr.right_trigger)>>
       ELSE <<TriggerEv("Right", "Active", c.curr.right_trigger)>>
  ELSE IF c.right_trigger_changed THEN <<TriggerToOrigin("Right")>> ELSE <<>>

\* Variant: the trigger blocks compare against the stick threshold.
DefaultControllerUpdate_OneThreshold(c, stk, tgr) ==
  {LeftStickEvents(c, stk) \o RightStickEvents(c, stk) \o b
     \o LeftTriggerEvents(c, stk) \o RightTriggerEvents(c, stk) :
     b \in ButtonRuns(c)}

\* The sequences of on_event calls one run of the default controller_update
\* can make (one per iteration order of the three button sets).
DefaultControllerUpdate(c, stk, tgr) ==
  {LeftStickEvents(c, stk) \o RightStickEvents(c, stk) \o b
     \o LeftTriggerEvents(c, tgr) \o RightTriggerEvents(c, tgr) :
     b \in ButtonRuns(c)}

(* ------------------------------- state ---------------------------------- *)

VARIABLES
  pc,            \* where the sampling thread is in read_controller
  stopped,       \* the stop flag of the StoppableHandle
  handler,       \* "default": controller_update is the trait's default;
                 \* "override": the handler overrides it and never calls on_event
  l_stk,         \* stick threshold passed to read_controller
  l_tgr,         \* trigger threshold passed to read_controller
  buf,           \* the raw report buffer of the connection
  controller,    \* the Controller of the connection
  events,        \* the on_event calls made so far in the current cycle
  calls,         \* history: the handler methods the loop has called in the cycle
  cycle,         \* history: "none", "first" or "later" update of the connection
  oldCurr,       \* history: the current snapshot just before the last update
  crossedBefore, \* history: per stick, whether an earlier cycle of the connection
                 \* took it from above the threshold to at or below it
  steps,         \* history: what the thread has done since it started the
                 \* current read iteration
  failed,        \* history: a read has failed and no discovery has completed since
  lastBuf,       \* history: the buffer contents when the last connection ended
  observed,      \* history: a check of the stop flag has found it set
  stopDuringRead,\* history: stop() was called while a read was in progress
  btnDown        \* history: per button, a Down was delivered in this connection
                 \* and no Up after it

vars ==
  <<pc, stopped, handler, l_stk, l_tgr, buf, controller, events, calls, cycle,
    oldCurr, crossedBefore, steps, failed, lastBuf, observed, stopDuringRead, btnDown>>

\* The history variables only some steps of the thread write.
hist == <<steps, failed, lastBuf, observed, stopDuringRead, btnDown>>

NoneHeld == [b \in Buttons |-> FALSE]

\* No Controller exists outside a connection.
NoController == "dropped"

InitialValues == ControllerValuesNew(ZeroBuf)

Above(pos, l) == LengthSq(pos) > l * l

\* Per stick: the last update took it from above l_stk to at or below it.
Crossed(c) ==
  [s \in Sides |->
     IF s = "Left"
     THEN Above(c.prev.left_pos, l_stk) /\ ~Above(c.curr.left_pos, l_stk)
     ELSE Above(c.prev.right_pos, l_stk) /\ ~Above(c.curr.right_pos, l_stk)]

NotCrossed == [s \in Sides |-> FALSE]

(* --------------------------- read_controller ---------------------------- *)

\* lib.rs:154  `while !stopped.get()` finds the flag set: the closure returns.
OuterExit ==
  /\ pc = "outer" /\ stopped
  /\ pc' = "done"
  /\ observed' = TRUE
  /\ UNCHANGED <<stopped, handler, l_stk, l_tgr, buf, controller, events, calls,
                 cycle, oldCurr, crossedBefore>>
  /\ UNCHANGED <<steps, failed, lastBuf, stopDuringRead, btnDown>>

\* lib.rs:154  the flag is clear: a reconnect iteration starts.
OuterEnter ==
  /\ pc = "outer" /\ ~stopped
  /\ pc' = "init_api"
  /\ UNCHANGED <<stopped, handler, l_stk, l_tgr, buf, controller, events, calls,
                 cycle, oldCurr, crossedBefore>>
  /\ UNCHANGED hist

\* lib.rs:158  HidApi::new() succeeds.
HidApiNewOk ==
  /\ pc = "init_api"
  /\ pc' = "discover"
  /\ UNCHANGED <<stopped, handler, l_stk, l_tgr, buf, controller, events, calls,
                 cycle, oldCurr, crossedBefore>>
  /\ UNCHANGED hist

\* lib.rs:158  HidApi::new() fails: unwrap() panics and the thread ends.
HidApiNewErr ==
  /\ pc = "init_api"
  /\ pc' = "panicked"
  /\ UNCHANGED <<stopped, handler, l_stk, l_tgr, buf, controller, events, calls,
                 cycle, oldCurr, crossedBefore>>
  /\ UNCHANGED hist

\* lib.rs:160-169  a refresh lists the device: the discovery loop ends.
DiscoverFound ==
  /\ pc = "discover"
  /\ pc' = "open"
  /\ failed' = FALSE
  /\ UNCHANGED <<stopped, handler, l_stk, l_tgr, buf, controller, events, calls,
                 cycle, oldCurr, crossedBefore>>
  /\ UNCHANGED <<steps, lastBuf, observed, stopDuringRead, btnDown>>

\* lib.rs:170-172  no device listed: the thread goes to sleep.
DiscoverRetry ==
  /\ pc = "discover"
  /\ pc' = "sleep"
  /\ UNCHANGED <<stopped, handler, l_stk, l_tgr, buf, controller, events, calls,
                 cycle, oldCurr, crossedBefore>>
  /\ UNCHANGED hist

\* lib.rs:172-173, 160-161  thread::sleep(dur) returns: refresh again.
Sleep ==
  /\ pc = "sleep"
  /\ pc' = "discover"
  /\ UNCHANGED <<stopped, handler, l_stk, l_tgr, buf, controller, events, calls,
                 cycle, oldCurr, crossedBefore>>
  /\ UNCHANGED hist

\* lib.rs:179-180  the Controller a connection starts with.
NewController == ControllerNew(ControllerValuesNew(ZeroBuf))

\* Variant: the buffer is declared outside the reconnect loop, so a new
\* connection starts from the bytes the last one left in it.
OpenOk_HoistedBuf ==
  /\ pc = "open"
  /\ pc' = "inner"
  /\ buf' = lastBuf
  /\ controller' = ControllerNew(ControllerValuesNew(lastBuf))
  /\ events' = <<>>
  /\ calls' = <<>>
  /\ cycle' = "none"
  /\ oldCurr' = ControllerValuesNew(lastBuf)
  /\ crossedBefore' = NotCrossed
  /\ steps' = <<>>
  /\ btnDown' = NoneHeld
  /\ UNCHANGED <<stopped, handler, l_stk, l_tgr>>
  /\ UNCHANGED <<failed, lastBuf, observed, stopDuringRead>>

\* lib.rs:177-180  the device opens; buffer and Controller are created.
OpenOk ==
  /\ pc = "open"
  /\ pc' = "inner"
  /\ buf' = ZeroBuf
  /\ controller' = NewController
  /\ events' = <<>>
  /\ calls' = <<>>
  /\ cycle' = "none"
  /\ oldCurr' = InitialValues
  /\ crossedBefore' = NotCrossed
  /\ steps' = <<>>
  /\ btnDown' = NoneHeld
  /\ UNCHANGED <<stopped, handler, l_stk, l_tgr>>
  /\ UNCHANGED <<failed, lastBuf, observed, stopDuringRead>>

\* lib.rs:177  api.open fails: unwrap() panics and the thread ends.
OpenErr ==
  /\ pc = "open"
  /\ pc' = "panicked"
  /\ UNCHANGED <<stopped, handler, l_stk, l_tgr, buf, controller, events, calls,
                 cycle, oldCurr, crossedBefore>>
  /\ UNCHANGED hist

\* The end of a reconnect iteration: device, buffer and Controller go out of scope.
Disconnect ==
  /\ pc' = "outer"
  /\ buf' = ZeroBuf
  /\ controller' = NoController
  /\ events' = <<>>
  /\ calls' = <<>>
  /\ cycle' = "none"
  /\ oldCurr' = InitialValues
  /\ crossedBefore' = NotCrossed
  /\ steps' = <<>>
  /\ lastBuf' = buf
  /\ btnDown' = NoneHeld

\* lib.rs:182  `while !stopped.get()` finds the flag set: the read loop ends.
InnerExit ==
  /\ pc = "inner" /\ stopped
  /\ Disconnect
  /\ observed' = TRUE
  /\ UNCHANGED <<stopped, handler, l_stk, l_tgr, failed, stopDuringRead>>

\* Variant: the read loop is `loop { .. }` and starts a read without a check.
InnerEnter_NoCheck ==
  /\ pc = "inner"
  /\ pc' = "read"
  /\ steps' = <<>>
  /\ UNCHANGED <<stopped, handler, l_stk, l_tgr, buf, controller, events, calls,
                 cycle, oldCurr, crossedBefore>>
  /\ UNCHANGED <<failed, lastBuf, observed, stopDuringRead, btnDown>>

\* lib.rs:182  the flag is clear: a read is started.
InnerEnter ==
  /\ pc = "inner" /\ ~stopped
  /\ pc' = "read"
  /\ steps' = <<>>
  /\ UNCHANGED <<stopped, handler, l_stk, l_tgr, buf, controller, events, calls,
                 cycle, oldCurr, crossedBefore>>
  /\ UNCHANGED <<failed, lastBuf, observed, stopDuringRead, btnDown>>

\* Variant: controller.update(vals) is called twice for one report.
ReadOkWith_UpdateTwice(report) ==
  /\ pc = "read"
  /\ pc' = "handle"
  /\ buf' = report
  /\ controller' = Update(Update(controller, ControllerValuesNew(report)),
                          ControllerValuesNew(report))
  /\ events' = <<>>
  /\ calls' = <<>>
  /\ cycle' = IF cycle = "none" THEN "first" ELSE "later"
  /\ oldCurr' = controller.curr
  /\ crossedBefore' = [s \in Sides |-> crossedBefore[s] \/ Crossed(controller)[s]]
  /\ steps' = steps \o <<"read", "update", "update">>
  /\ UNCHANGED <<stopped, handler, l_stk, l_tgr>>
  /\ UNCHANGED <<failed, lastBuf, observed, stopDuringRead, btnDown>>

\* Variant: the Ok arm goes to the handler without updating the Controller.
ReadOkWith_NoUpdate(report) ==
  /\ pc = "read"
  /\ pc' = "handle"
  /\ buf' = report
  /\ events' = <<>>
  /\ calls' = <<>>
  /\ cycle' = IF cycle = "none" THEN "first" ELSE "later"
  /\ oldCurr' = controller.curr
  /\ crossedBefore' = [s \in Sides |-> crossedBefore[s] \/ Crossed(controller)[s]]
  /\ steps' = steps \o <<"read">>
  /\ UNCHANGED <<stopped, handler, l_stk, l_tgr, controller>>
  /\ UNCHANGED <<failed, lastBuf, observed, stopDuringRead, btnDown>>

\* Variant: the values are decoded from the buffer before the read fills it.
ReadOkWith_Stale(report) ==
  /\ pc = "read"
  /\ pc' = "handle"
  /\ buf' = report
  /\ controller' = Update(controller, ControllerValuesNew(buf))
  /\ events' = <<>>
  /\ calls' = <<>>
  /\ cycle' = IF cycle = "none" THEN "first" ELSE "later"
  /\ oldCurr' = controller.curr
  /\ crossedBefore' = [s \in Sides |-> crossedBefore[s] \/ Crossed(controller)[s]]
  /\ steps' = steps \o <<"read", "update">>
  /\ UNCHANGED <<stopped, handler, l_stk, l_tgr>>
  /\ UNCHANGED <<failed, lastBuf, observed, stopDuringRead, btnDown>>

\* lib.rs:184-188  read_timeout returns Ok with `report` in buf; the report
\* is decoded and the Controller updated.
ReadOkWith(report) ==
  /\ pc = "read"
  /\ pc' = "handle"
  /\ buf' = report
  /\ controller' = Update(controller, ControllerValuesNew(report))
  /\ events' = <<>>
  /\ calls' = <<>>
  /\ cycle' = IF cycle = "none" THEN "first" ELSE "later"
  /\ oldCurr' = controller.curr
  /\ crossedBefore' = [s \in Sides |-> crossedBefore[s] \/ Crossed(controller)[s]]
  /\ steps' = steps \o <<"read", "update">>
  /\ UNCHANGED <<stopped, handler, l_stk, l_tgr>>
  /\ UNCHANGED <<failed, lastBuf, observed, stopDuringRead, btnDown>>

ReadOk == \E report \in LoopReports : ReadOkWith(report)

\* Variant: the Err arm does not break and the read loop goes on.
ReadErr_Continue ==
  /\ pc = "read"
  /\ pc' = "inner"
  /\ failed' = TRUE
  /\ UNCHANGED <<stopped, handler, l_stk, l_tgr, buf, controller, events, calls,
                 cycle, oldCurr, crossedBefore>>
  /\ UNCHANGED <<steps, lastBuf, observed, stopDuringRead, btnDown>>

\* lib.rs:191-194  read_timeout returns Err: break out of the read loop.
ReadErr ==
  /\ pc = "read"
  /\ Disconnect
  /\ failed' = TRUE
  /\ UNCHANGED <<stopped, handler, l_stk, l_tgr, observed, stopDuringRead>>

\* Variant: the default body runs even for a handler that overrides it.
HandlerRuns_AlwaysDefault(h, c, stk, tgr) == DefaultControllerUpdate(c, stk, tgr)

\* lib.rs:53-56, 189  the on_event calls controller_update makes on handler h.
HandlerRuns(h, c, stk, tgr) ==
  IF h = "default" THEN DefaultControllerUpdate(c, stk, tgr) ELSE {<<>>}

\* Per button: a Down has been delivered and no Up after it, once `run` has
\* been delivered too.
HeldAfter(h, run) ==
  [b \in Buttons |->
     IF \E i \in 1 .. Len(run) : run[i] = ButtonEv(b, "Up") THEN FALSE
     ELSE IF \E i \in 1 .. Len(run) : run[i] = ButtonEv(b, "Down") THEN TRUE
     ELSE h[b]]

\* lib.rs:189  controller_handler.controller_update(&controller, l_stk, l_tgr)
Handle ==
  /\ pc = "handle"
  /\ pc' = "inner"
  /\ calls' = Append(calls, "controller_update")
  /\ steps' = Append(steps, "controller_update")
  /\ \E run \in HandlerRuns(handler, controller, l_stk, l_tgr) :
       /\ events' = run
       /\ btnDown' = HeldAfter(btnDown, run)
  /\ UNCHANGED <<stopped, handler, l_stk, l_tgr, buf, controller, cycle, oldCurr,
                 crossedBefore>>
  /\ UNCHANGED <<failed, lastBuf, observed, stopDuringRead>>

\* StoppableHandle::stop(), called by the owner of the handle at any time.
Stop ==
  /\ ~stopped
  /\ pc \notin {"done", "panicked"}
  /\ stopped' = TRUE
  /\ stopDuringRead' = (pc = "read")
  /\ UNCHANGED <<pc, handler, l_stk, l_tgr, buf, controller, events, calls, cycle,
                 oldCurr, crossedBefore>>
  /\ UNCHANGED <<steps, failed, lastBuf, observed, btnDown>>

\* lib.rs:147-154  read_controller has spawned the thread.
Init ==
  /\ pc = "outer"
  /\ stopped = FALSE
  /\ handler \in {"default", "override"}
  /\ l_stk \in 0 .. MaxThr
  /\ l_tgr \in 0 .. MaxThr
  /\ buf = ZeroBuf
  /\ controller = NoController
  /\ events = <<>>
  /\ calls = <<>>
  /\ cycle = "none"
  /\ oldCurr = InitialValues
  /\ crossedBefore = NotCrossed
  /\ steps = <<>>
  /\ failed = FALSE
  /\ lastBuf = ZeroBuf
  /\ observed = FALSE
  /\ stopDuringRead = FALSE
  /\ btnDown = NoneHeld

Next ==
  \/ OuterExit \/ OuterEnter
  \/ HidApiNewOk \/ HidApiNewErr
  \/ DiscoverFound \/ DiscoverRetry \/ Sleep
  \/ OpenOk \/ OpenErr
  \/ InnerExit \/ InnerEnter
  \/ ReadOk \/ ReadErr
  \/ Handle
  \/ Stop

Spec == Init /\ [][Next]_vars

\* lib.rs:184-188  a successful read, of a report in StopReports.
FairReadOk == \E report \in StopReports : ReadOkWith(report)

FairNext ==
  \/ OuterExit \/ OuterEnter
  \/ HidApiNewOk \/ HidApiNewErr
  \/ DiscoverFound \/ DiscoverRetry \/ Sleep
  \/ OpenOk \/ OpenErr
  \/ InnerExit \/ InnerEnter
  \/ FairReadOk \/ ReadErr
  \/ Handle
  \/ Stop

\* The thread runs on: every step of it that is enabled is eventually taken,
\* and every call it makes returns (HidApi::new, the device refresh, sleep,
\* open, read_timeout, controller_update), with one outcome or the other.
\* Whether a device is ever listed, and whether stop() is ever called, is
\* left to the environment.
Fairness ==
  /\ WF_vars(OuterExit) /\ WF_vars(OuterEnter)
  /\ WF_vars(HidApiNewOk \/ HidApiNewErr)
  /\ WF_vars(DiscoverFound \/ DiscoverRetry) /\ WF_vars(Sleep)
  /\ WF_vars(OpenOk \/ OpenErr)
  /\ WF_vars(InnerExit) /\ WF_vars(InnerEnter)
  /\ WF_vars(FairReadOk \/ ReadErr)
  /\ WF_vars(Handle)

FairSpec == Init /\ [][FairNext]_vars /\ Fairness

(* ---------------- one connection, the whole report range ---------------- *)

\* A connection has just been opened (lib.rs:177-182) with the default handler.
ConnInit ==
  /\ pc = "inner"
  /\ stopped = FALSE
  /\ handler = "default"
  /\ l_stk \in 0 .. MaxThr
  /\ l_tgr \in 0 .. MaxThr
  /\ buf = ZeroBuf
  /\ controller = NewController
  /\ events = <<>>
  /\ calls = <<>>
  /\ cycle = "none"
  /\ oldCurr = InitialValues
  /\ crossedBefore = NotCrossed
  /\ steps = <<>>
  /\ failed = FALSE
  /\ lastBuf = ZeroBuf
  /\ observed = FALSE
  /\ stopDuringRead = FALSE
  /\ btnDown = NoneHeld

ConnReadOk == \E report \in Reports : ReadOkWith(report)

ConnNext == InnerEnter \/ ConnReadOk \/ Handle

ConnSpec == ConnInit /\ [][ConnNext]_vars

(* ------------------------------ properties ------------------------------ *)

\* The last controller_update of the connection has returned: `events` holds
\* the on_event calls it made and `controller` the state it was given.
Handled == pc \in {"inner", "read"} /\ cycle # "none"

Pos(c, side) == IF side = "Left" THEN c.curr.left_pos ELSE c.curr.right_pos

PrevPos(c, side) == IF side = "Left" THEN c.prev.left_pos ELSE c.prev.right_pos

PosChanged(c, side) == IF side = "Left" THEN c.left_pos_changed ELSE c.right_pos_changed

Mag(c, side) == IF side = "Left" THEN c.curr.left_trigger ELSE c.curr.right_trigger

PrevMag(c, side) == IF side = "Left" THEN c.prev.left_trigger ELSE c.prev.right_trigger

MagChanged(c, side) ==
  IF side = "Left" THEN c.left_trigger_changed ELSE c.right_trigger_changed

IsStick(e, side) == e.kind = "Stick" /\ e.who = side

IsTrigger(e, side) == e.kind = "Trigger" /\ e.who = side

IsButton(e, b) == e.kind = "Button" /\ e.who = b

StickCalls(run, side) == SelectSeq(run, LAMBDA e : IsStick(e, side))

TriggerCalls(run, side) == SelectSeq(run, LAMBDA e : IsTrigger(e, side))

ButtonCalls(run, b) == SelectSeq(run, LAMBDA e : IsButton(e, b))

AllButtonCalls(run) == SelectSeq(run, LAMBDA e : e.kind = "Button")

\* C1: for each stick one default controller_update makes at most one Stick
\* call for that side: Moved(current) when the length is above stick_threshold
\* and the changed flag is set, Active(current) when above and the flag is
\* clear, ToOrigin when at or below and the flag is set, none otherwise.
C1_StickRule ==
  Handled =>
    \A side \in Sides :
      LET got     == StickCalls(events, side)
          pos     == Pos(controller, side)
          above   == LengthSq(pos) > l_stk * l_stk
          changed == PosChanged(controller, side)
      IN /\ Len(got) <= 1
         /\ (above /\ changed)   => got = <<StickEv(side, "Moved", pos)>>
         /\ (above /\ ~changed)  => got = <<StickEv(side, "Active", pos)>>
         /\ (~above /\ changed)  => got = <<StickToOrigin(side)>>
         /\ (~above /\ ~changed) => got = <<>>

\* C1 witness: a cycle in which the left stick is reported Moved and the right
\* stick, at or below the threshold with its flag set, is reported ToOrigin.
C1_Witness ==
  /\ Handled
  /\ StickCalls(events, "Left") = <<StickEv("Left", "Moved", controller.curr.left_pos)>>
  /\ StickCalls(events, "Right") = <<StickToOrigin("Right")>>
  /\ controller.right_pos_changed

\* C2: for each trigger one default controller_update makes at most one
\* Trigger call for that side, by the stick rule with the magnitude and
\* trigger_threshold; the Trigger calls are the same under every stick
\* threshold and the Stick calls the same under every trigger threshold.
C2_TriggerRule ==
  Handled =>
    /\ \A side \in Sides :
         LET got     == TriggerCalls(events, side)
             m       == Mag(controller, side)
             above   == m > l_tgr
             changed == MagChanged(controller, side)
         IN /\ Len(got) <= 1
            /\ (above /\ changed)   => got = <<TriggerEv(side, "Moved", m)>>
            /\ (above /\ ~changed)  => got = <<TriggerEv(side, "Active", m)>>
            /\ (~above /\ changed)  => got = <<TriggerToOrigin(side)>>
            /\ (~above /\ ~changed) => got = <<>>
    /\ \A t \in 0 .. MaxThr, side \in Sides :
         /\ \A run \in DefaultControllerUpdate(controller, t, l_tgr) :
              TriggerCalls(run, side) = TriggerCalls(events, side)
         /\ \A run \in DefaultControllerUpdate(controller, l_stk, t) :
              StickCalls(run, side) = StickCalls(events, side)

\* C2 witness: the thresholds differ, the left trigger is reported Moved and
\* the right one ToOrigin while a stick is reported too.
C2_Witness ==
  /\ Handled
  /\ l_stk # l_tgr
  /\ TriggerCalls(events, "Left")
       = <<TriggerEv("Left", "Moved", controller.curr.left_trigger)>>
  /\ TriggerCalls(events, "Right") = <<TriggerToOrigin("Right")>>

\* The group of a call in the fixed order of one cycle.
Rank(e) ==
  IF e.kind = "Stick" THEN (IF e.who = "Left" THEN 1 ELSE 2)
  ELSE IF e.kind = "Button"
       THEN (IF e.evt = "Down" THEN 3 ELSE IF e.evt = "Up" THEN 4 ELSE 5)
       ELSE (IF e.who = "Left" THEN 6 ELSE 7)

\* C3: within one default controller_update the on_event calls come in the
\* order left stick, right stick, Button Down, Button Up, Button Pressed,
\* left trigger, right trigger; no call of a later group precedes one of an
\* earlier group.
C3_EmissionOrder ==
  Handled =>
    \A i, j \in 1 .. Len(events) : i < j => Rank(events[i]) <= Rank(events[j])

\* C3 witness: one cycle with calls for both sticks, two kinds of Button
\* call and both triggers.
C3_Witness ==
  /\ Handled
  /\ \A k \in {1, 2, 6, 7} : \E i \in 1 .. Len(events) : Rank(events[i]) = k
  /\ \E i, j \in 1 .. Len(events) :
       /\ Rank(events[i]) \in {3, 4, 5} /\ Rank(events[j]) \in {3, 4, 5}
       /\ Rank(events[i]) # Rank(events[j])

\* C4: in one default controller_update every button gets at most one Button
\* call: Down iff it is in current and not in previous, Up iff in previous
\* and not in current, Pressed iff in both, none iff in neither; previous =
\* {A}, current = {A, B} gives Button(B, Down) then Button(A, Pressed).
C4_ButtonRule ==
  Handled =>
    /\ \A b \in Buttons :
         LET got  == ButtonCalls(events, b)
             was  == b \in controller.prev.buttons
             isIn == b \in controller.curr.buttons
         IN /\ Len(got) <= 1
            /\ (got = <<ButtonEv(b, "Down")>>)    <=> (isIn /\ ~was)
            /\ (got = <<ButtonEv(b, "Up")>>)      <=> (was /\ ~isIn)
            /\ (got = <<ButtonEv(b, "Pressed")>>) <=> (was /\ isIn)
            /\ (got = <<>>)                       <=> (~was /\ ~isIn)
    /\ (controller.prev.buttons = {"A"} /\ controller.curr.buttons = {"A", "B"})
         => AllButtonCalls(events) = <<ButtonEv("B", "Down"), ButtonEv("A", "Pressed")>>

\* C4 witness: the cycle previous = {A}, current = {A, B}.
C4_Witness ==
  /\ Handled
  /\ controller.prev.buttons = {"A"}
  /\ controller.curr.buttons = {"A", "B"}
  /\ Len(AllButtonCalls(events)) = 2

\* C5: the three sets of changed_buttons() (pressed, held, released) are
\* pairwise disjoint and their union is the union of the previous and the
\* current button sets, after any sequence of updates.
C5_ButtonPartition ==
  LET pressed  == ChangedButtons(controller)[1]
      held     == ChangedButtons(controller)[2]
      released == ChangedButtons(controller)[3]
  IN /\ pressed \cap held = {}
     /\ pressed \cap released = {}
     /\ held \cap released = {}
     /\ pressed \cup held \cup released
          = controller.prev.buttons \cup controller.curr.buttons

\* C5 witness: after a second update one button is newly pressed while the
\* other is released.
C5_Witness ==
  /\ cycle = "later"
  /\ ChangedButtons(controller)[1] # {}
  /\ ChangedButtons(controller)[3] # {}

\* C6: in a cycle that takes a stick from above stick_threshold to at or
\* below it exactly one Stick call is made for it, a ToOrigin; in a later
\* cycle of the connection where its position equals that of the cycle
\* before and is at or below the threshold no Stick call is made for it.
C6_ToOriginOnce ==
  Handled =>
    \A side \in Sides :
      LET got  == StickCalls(events, side)
          pos  == Pos(controller, side)
          prev == PrevPos(controller, side)
      IN /\ (Above(prev, l_stk) /\ ~Above(pos, l_stk)) => got = <<StickToOrigin(side)>>
         /\ (crossedBefore[side] /\ pos = prev /\ ~Above(pos, l_stk)) => got = <<>>

\* C6 witness: the left stick crossed under a positive threshold in an earlier
\* cycle and now rests, unchanged, off centre and inside the deadzone, with no
\* Stick call.
C6_Witness ==
  /\ Handled
  /\ crossedBefore["Left"]
  /\ controller.curr.left_pos = controller.prev.left_pos
  /\ controller.curr.left_pos # <<0, 0>>
  /\ ~Above(controller.curr.left_pos, l_stk)
  /\ StickCalls(events, "Left") = <<>>

CallSet(run) == {run[i] : i \in 1 .. Len(run)}

\* C7: every ToOrigin, for a stick or a trigger, is sent in a cycle whose
\* previous magnitude was above the threshold (it fires once on the crossing
\* and not again while the magnitude stays at or below the threshold).
C7_ToOriginOnlyOnCrossing ==
  Handled =>
    \A side \in Sides :
      /\ StickToOrigin(side) \in CallSet(events)
           => Above(PrevPos(controller, side), l_stk)
      /\ TriggerToOrigin(side) \in CallSet(events)
           => PrevMag(controller, side) > l_tgr

MovedOrActive(run) == SelectSeq(run, LAMBDA e : e.evt \in {"Moved", "Active"})

\* C8: with a threshold of 0 for sticks (triggers), a reading of nonzero
\* magnitude gets exactly one Moved or Active call in its cycle, and a
\* reading of magnitude 0 gets no Moved or Active, a ToOrigin exactly when
\* the axis value differs from the previous one, and nothing otherwise.
C8_ZeroThreshold ==
  Handled =>
    \A side \in Sides :
      /\ l_stk = 0 =>
           LET got == StickCalls(events, side)
               pos == Pos(controller, side)
           IN IF LengthSq(pos) # 0
              THEN Len(got) = 1 /\ Len(MovedOrActive(got)) = 1
              ELSE got = IF pos # PrevPos(controller, side)
                         THEN <<StickToOrigin(side)>> ELSE <<>>
      /\ l_tgr = 0 =>
           LET got == TriggerCalls(events, side)
               m   == Mag(controller, side)
           IN IF m # 0
              THEN Len(got) = 1 /\ Len(MovedOrActive(got)) = 1
              ELSE got = IF m # PrevMag(controller, side)
                         THEN <<TriggerToOrigin(side)>> ELSE <<>>

\* C8 witness: both thresholds 0; the left stick has returned to exactly 0
\* (ToOrigin), the right stick is off centre and unchanged (Active), the left
\* trigger reads 0 unchanged (no call).
C8_Witness ==
  /\ Handled
  /\ l_stk = 0 /\ l_tgr = 0
  /\ StickCalls(events, "Left") = <<StickToOrigin("Left")>>
  /\ StickCalls(events, "Right")
       = <<StickEv("Right", "Active", controller.curr.right_pos)>>
  /\ controller.curr.left_trigger = 0
  /\ TriggerCalls(events, "Left") = <<>>

\* C9: with a handler that overrides controller_update and makes no on_event
\* call itself, on_event is never called: the loop calls only
\* controller_update, once per cycle, and on_event is called only by the
\* default controller_update.
C9_OverrideSilencesOnEvent ==
  /\ handler = "override" => events = <<>>
  /\ calls \in {<<>>, <<"controller_update">>}
  /\ (pc \in {"inner", "read"} /\ cycle # "none") => calls = <<"controller_update">>

\* C9 witness: an overriding handler has been given a cycle in which the
\* default controller_update would have called on_event, and no call was made.
C9_Witness ==
  /\ handler = "override"
  /\ pc = "inner" /\ cycle # "none"
  /\ calls = <<"controller_update">>
  /\ <<>> \notin DefaultControllerUpdate(controller, l_stk, l_tgr)
  /\ events = <<>>

\* C10: whenever controller_update is about to run, the Controller's previous
\* snapshot is the one that was current just before the last update and its
\* current snapshot is the decode of the report just read; on the first
\* update of a connection the previous snapshot is the decode of the
\* all-zero buffer.
C10_SnapshotPair ==
  pc = "handle" =>
    /\ controller.prev = oldCurr
    /\ controller.curr = ControllerValuesNew(buf)
    /\ cycle = "first" => controller.prev = ControllerValuesNew(ZeroBuf)

\* C10 witness: a later update of a connection, about to be handled, whose
\* report differs from the one before, which in turn was not all-zero.
C10_Witness ==
  /\ pc = "handle"
  /\ cycle = "later"
  /\ controller.prev # controller.curr
  /\ controller.prev # ControllerValuesNew(ZeroBuf)

\* C11: after update(new_values) each of the four change flags is true
\* exactly when the new value of its axis differs from the value that was
\* current before the update, whatever the thresholds; a flag set in one
\* cycle is clear again after the next update if the value stayed the same.
C11_ChangeFlags ==
  cycle # "none" =>
    /\ controller.left_pos_changed = (controller.curr.left_pos # oldCurr.left_pos)
    /\ controller.right_pos_changed = (controller.curr.right_pos # oldCurr.right_pos)
    /\ controller.left_trigger_changed
         = (controller.curr.left_trigger # oldCurr.left_trigger)
    /\ controller.right_trigger_changed
         = (controller.curr.right_trigger # oldCurr.right_trigger)

\* C11 witness: the left stick, moved off centre in an earlier cycle, kept
\* its position in the last update and its flag is clear, while the right
\* stick changed inside a positive deadzone and its flag is set.
C11_Witness ==
  /\ cycle = "later"
  /\ l_stk > 0
  /\ controller.curr.left_pos # <<0, 0>>
  /\ controller.curr.left_pos = controller.prev.left_pos
  /\ ~controller.left_pos_changed
  /\ ~Above(controller.curr.right_pos, l_stk) /\ ~Above(controller.prev.right_pos, l_stk)
  /\ controller.right_pos_changed

AfterRead == <<"read", "update">>

AfterHandler == <<"read", "update", "controller_update">>

\* C12: every successful read is followed by exactly one Controller::update
\* with the decoded report and then exactly one controller_update, both done
\* before the next read starts; the handler is not called twice for one
\* report, nor without the update of the report just read.
C12_OneUpdateOneCall ==
  /\ steps \in {<<>>, AfterRead, AfterHandler}
  /\ pc = "read" => steps = <<>>
  /\ pc = "handle" =>
       steps = AfterRead /\ calls = <<>> /\ controller.curr = ControllerValuesNew(buf)
  /\ (pc = "inner" /\ cycle # "none") =>
       steps = AfterHandler /\ calls = <<"controller_update">>
  /\ (pc = "inner" /\ cycle = "none") => steps = <<>> /\ calls = <<>>

\* C12 witness: the second report of a connection has been read, applied
\* and handled, and the thread is back at the head of the read loop.
C12_Witness ==
  /\ pc = "inner"
  /\ cycle = "later"
  /\ steps = AfterHandler
  /\ controller.curr # controller.prev

BetweenConnections == {"outer", "init_api", "discover", "sleep", "done", "panicked"}

\* C13: a failed read causes no Controller update and no handler call; the
\* connection with its Controller is abandoned, and the thread, unless it
\* finds the stop flag set, goes on to the discovery phase and attempts no
\* read before discovery has found a device again.
C13_FailedRead ==
  /\ [](failed =>
         /\ pc \in BetweenConnections
         /\ controller = NoController
         /\ steps = <<>> /\ calls = <<>> /\ events = <<>>)
  /\ [][(failed /\ pc = "outer" /\ pc' # "outer") =>
          IF stopped THEN pc' = "done" ELSE pc' = "init_api"]_vars
  /\ [][(failed /\ pc \in {"discover", "sleep"}) =>
          pc' \in {"discover", "sleep", "open"}]_vars

\* C13 witness: a read failed after a report had been handled, the flag is
\* clear and the thread is polling for the device again.
C13_Witness ==
  /\ failed
  /\ ~stopped
  /\ pc = "discover"
  /\ lastBuf # ZeroBuf

\* C14: each connection starts with a fresh Controller built from the
\* all-zero buffer; in the first handler call after a reconnect the previous
\* snapshot is the initial one, never the last snapshot of the earlier
\* connection, and between connections there is no Controller at all.
C14_FreshController ==
  /\ (pc = "inner" /\ cycle = "none") => controller = NewController /\ buf = ZeroBuf
  /\ (pc = "handle" /\ cycle = "first") =>
       /\ controller.prev = InitialValues
       /\ oldCurr = InitialValues
       /\ lastBuf # ZeroBuf => controller.prev # ControllerValuesNew(lastBuf)
  /\ pc \in BetweenConnections \cup {"open"} => controller = NoController

\* C14 witness: the first report of a connection is about to be handled and
\* the earlier connection ended on a snapshot other than the initial one.
C14_Witness ==
  /\ pc = "handle"
  /\ cycle = "first"
  /\ lastBuf # ZeroBuf
  /\ controller.curr # controller.prev

\* C15: the stop flag is checked at the head of every outer and every inner
\* iteration: no read and no reconnect iteration starts without a check that
\* found it clear. Once a check has found it set, the thread starts no read,
\* calls no handler, begins no discovery, and terminates. A report whose
\* read was in progress when the flag was set is updated and handled before
\* the flag is observed.
C15_StopChecks ==
  /\ [](observed => stopped /\ pc \in {"outer", "done"} /\ steps = <<>> /\ calls = <<>>)
  /\ [][(pc' = "read" /\ pc # "read") => pc = "inner" /\ ~stopped]_vars
  /\ [][(pc' = "init_api" /\ pc # "init_api") => pc = "outer" /\ ~stopped]_vars
  /\ [][(observed' /\ ~observed) => pc \in {"outer", "inner"} /\ stopped]_vars
  /\ [][(observed' /\ ~observed /\ stopDuringRead) =>
          \/ pc = "inner" /\ steps = AfterHandler /\ calls = <<"controller_update">>
          \/ pc = "outer" /\ failed]_vars
  /\ (observed ~> pc = "done")

\* C15 witness: stop() came while a read was in progress, the report of that
\* read has been applied and handled with events delivered, and the thread
\* is at the head of the read loop about to find the flag set.
C15_Witness ==
  /\ stopDuringRead
  /\ stopped
  /\ ~observed
  /\ pc = "inner"
  /\ steps = AfterHandler
  /\ events # <<>>

\* C16: once a stop is requested the thread eventually ends, given that
\* every call it makes returns, wherever the thread is at the time of the
\* request, the discovery phase with no matching device included.
C16_StopTerminates == stopped ~> pc \in {"done", "panicked"}

\* C17: the thread ends only after a check of the stop flag found it set:
\* no failure of HidApi::new, of open or of a read ends it.
C17_NoFatalFailure == pc \in {"done", "panicked"} => observed

\* The sequences the default controller_update can deliver in this state.
Deliveries == DefaultControllerUpdate(controller, l_stk, l_tgr)

C19_DownPressedUp ==
  /\ [](pc \in {"inner", "read"} =>
         \A b \in Buttons : btnDown[b] = (b \in controller.curr.buttons))
  /\ [][pc = "handle" =>
          \A b \in Buttons :
            LET got == ButtonCalls(events', b)
            IN /\ btnDown[b] => got \in {<<ButtonEv(b, "Pressed")>>, <<ButtonEv(b, "Up")>>}
               /\ ~btnDown[b] => got \in {<<>>, <<ButtonEv(b, "Down")>>}]_vars

\* C19 witness: button A, down since an earlier cycle, was reported Pressed
\* in the last cycle while button B was released in it.
C19_Witness ==
  /\ Handled
  /\ cycle = "later"
  /\ btnDown["A"]
  /\ ~btnDown["B"]
  /\ ButtonCalls(events, "A") = <<ButtonEv("A", "Pressed")>>
  /\ ButtonCalls(events, "B") = <<ButtonEv("B", "Up")>>

====
